---- MODULE Spec2Model ----
(***************************************************************************)
(* Model of Bio/Phylo/PAML/_parse_yn00.py: the three line parsers          *)
(* parse_ng86, parse_yn00 and parse_others that fill one nested dictionary *)
(* `results` from the text report of PAML's yn00.                          *)
(*                                                                         *)
(* Lines are TLA+ strings; the regular expressions and string methods of   *)
(* the source are operators over the characters of a line.  A Python dict  *)
(* is a function whose DOMAIN is its key set.  A MethodStats dict is never *)
(* mutated after it is stored, so it is the record [id, stats]: `id` is    *)
(* the identity of the Python object, `stats` its contents.                *)
(***************************************************************************)
EXTENDS Integers, Sequences, FiniteSets, TLC

(***************************************************************************)
(* Characters and Python string methods                                    *)
(***************************************************************************)
\* s[a-1:b]: a slice is clamped to the string, never out of range
Slice(s, a, b) ==
  IF a > b \/ a > Len(s) \/ a < 1 THEN ""
  ELSE SubSeq(s, a, IF b > Len(s) THEN Len(s) ELSE b)

\* the character at position i, "" past the end
Ch(s, i) == Slice(s, i, i)

Digits == {"0", "1", "2", "3", "4", "5", "6", "7", "8", "9"}

\* the characters str.strip(), str.split() and regex \s treat as whitespace
Whitespace == {" ", "\t", "\n", "\r"}

DigitVal(c) ==
  CASE c = "0" -> 0 [] c = "1" -> 1 [] c = "2" -> 2 [] c = "3" -> 3
    [] c = "4" -> 4 [] c = "5" -> 5 [] c = "6" -> 6 [] c = "7" -> 7
    [] c = "8" -> 8 [] c = "9" -> 9

\* first position >= i whose character is not in C (Len(s)+1 when none):
\* the end of a greedy regex repetition over the character class C
SpanEnd(s, i, C) ==
  CHOOSE j \in i..(Len(s) + 1) :
    /\ \A q \in i..(j - 1) : Ch(s, q) \in C
    /\ (j = Len(s) + 1 \/ Ch(s, j) \notin C)

\* last position <= i whose character is not in C (0 when none)
SpanStart(s, i, C) ==
  CHOOSE j \in 0..i :
    /\ \A q \in (j + 1)..i : Ch(s, q) \in C
    /\ (j = 0 \/ Ch(s, j) \notin C)

\* sub in s
Contains(s, sub) ==
  \E i \in 1..(Len(s) - Len(sub) + 1) : Slice(s, i, i + Len(sub) - 1) = sub

\* s.strip(chars)
StripChars(s, C) ==
  LET b == SpanEnd(s, 1, C)
      e == SpanStart(s, Len(s), C)
  IN  IF b > e THEN "" ELSE Slice(s, b, e)

\* s.strip()
Strip(s) == StripChars(s, Whitespace)

\* s.split(): the maximal runs of non-whitespace characters, in order
RECURSIVE SplitFrom(_, _)
SplitFrom(s, i) ==
  LET b == SpanEnd(s, i, Whitespace)
      e == CHOOSE j \in b..(Len(s) + 1) :
             /\ \A q \in b..(j - 1) : Ch(s, q) \notin Whitespace
             /\ (j = Len(s) + 1 \/ Ch(s, j) \in Whitespace)
  IN  IF b > Len(s) THEN << >>
      ELSE <<Slice(s, b, e - 1)>> \o SplitFrom(s, e)

Split(s) == SplitFrom(s, 1)

\* positions of the character c in s
Positions(s, c) == {i \in 1..Len(s) : Ch(s, i) = c}

Min(S) == CHOOSE x \in S : \A y \in S : x <= y
Max(S) == CHOOSE x \in S : \A y \in S : x >= y

\* s.split(":")[1]: the text between the first and the second colon (to
\* the end of the line when there is one colon); IndexError without a colon
HasColon(s) == Positions(s, ":") # {}

SplitColon1(s) ==
  LET c1   == Min(Positions(s, ":"))
      rest == {i \in Positions(s, ":") : i > c1}
      e    == IF rest = {} THEN Len(s) ELSE Min(rest) - 1
  IN  Slice(s, c1 + 1, e)

(***************************************************************************)
(* Python values.  A float is modelled exactly as a multiple of            *)
(* 10^-FloatScale (the report prints at most four decimals); nan, the      *)
(* infinities and None are values of their own.  -0.0 == 0.0 as in Python. *)
(***************************************************************************)
FloatScale == 4

None == <<"None", 0>>
NaN == <<"nan", 0>>
Inf(sign) == <<"inf", sign>>
Float(n) == <<"float", n>>
ValueError == <<"ValueError", 0>>

IsFloat(v) == v[1] \in {"float", "nan", "inf"}
IsNumber(v) == v[1] = "float"

RECURSIVE Pow10(_)
Pow10(n) == IF n = 0 THEN 1 ELSE 10 * Pow10(n - 1)

RECURSIVE DigitsVal(_)
DigitsVal(s) ==
  IF Len(s) = 0 THEN 0
  ELSE 10 * DigitsVal(Slice(s, 1, Len(s) - 1)) + DigitVal(Ch(s, Len(s)))

\* int(s) for a string of decimal digits
PyInt(s) == DigitsVal(s)

\* value of the fraction digits f in units of 10^-FloatScale
FracVal(f) ==
  IF Len(f) <= FloatScale THEN DigitsVal(f) * Pow10(FloatScale - Len(f))
  ELSE DigitsVal(Slice(f, 1, FloatScale))

\* float(s) for a token without surrounding whitespace: an optional sign,
\* then nan, inf, infinity or a decimal literal (exponents are not used by
\* the report and are not modelled); anything else raises ValueError
PyFloat(s) ==
  LET signed == Len(s) > 0 /\ Ch(s, 1) \in {"+", "-"}
      sign   == IF signed /\ Ch(s, 1) = "-" THEN -1 ELSE 1
      body   == IF signed THEN Slice(s, 2, Len(s)) ELSE s
      d      == SpanEnd(body, 1, Digits)
      f      == IF d <= Len(body) /\ Ch(body, d) = "."
                THEN SpanEnd(body, d + 1, Digits) ELSE d
      ip     == Slice(body, 1, d - 1)
      fp     == IF f > d THEN Slice(body, d + 1, f - 1) ELSE ""
  IN  IF body = "nan" THEN NaN
      ELSE IF body \in {"inf", "infinity"} THEN Inf(sign)
      ELSE IF f = Len(body) + 1 /\ Len(ip) + Len(fp) > 0
           THEN Float(sign * (DigitsVal(ip) * Pow10(FloatScale) + FracVal(fp)))
      ELSE ValueError

(***************************************************************************)
(* Python containers                                                       *)
(***************************************************************************)
EmptyDict == << >>

\* d[k] = v
DictSet(d, k, v) == (k :> v) @@ d

\* seq[idx] with Python's 0-based index; a negative index counts from the end
IndexOk(seq, idx) == -Len(seq) <= idx /\ idx < Len(seq)

PyIndex(seq, idx) == IF idx >= 0 THEN seq[idx + 1] ELSE seq[Len(seq) + idx + 1]

\* an optional string: a local that holds None or a str
NoName == << >>
Name(s) == <<s>>

(***************************************************************************)
(* The regular expressions of the source                                   *)
(***************************************************************************)
\* one match of "-*\d+\.\d+" starting at i: the position after it, or 0
FloatEnd(s, i) ==
  LET j == SpanEnd(s, i, {"-"})
      k == SpanEnd(s, j, Digits)
      m == SpanEnd(s, k + 1, Digits)
  IN  IF k > j /\ k <= Len(s) /\ Ch(s, k) = "." /\ m > k + 1 THEN m ELSE 0

\* re.findall("-*\d+\.\d+", line): the non-overlapping matches, left to right
RECURSIVE FindFloatsFrom(_, _)
FindFloatsFrom(s, i) ==
  IF i > Len(s) THEN << >>
  ELSE IF FloatEnd(s, i) > 0
       THEN <<Slice(s, i, FloatEnd(s, i) - 1)>> \o FindFloatsFrom(s, FloatEnd(s, i))
       ELSE FindFloatsFrom(s, i + 1)

line_floats_res(line) == FindFloatsFrom(line, 1)

\* [float(val) for val in line_floats_res]
line_floats(line) ==
  [i \in 1..Len(line_floats_res(line)) |-> PyFloat(line_floats_res(line)[i])]

FloatsRaise(line) ==
  \E i \in 1..Len(line_floats(line)) : line_floats(line)[i] = ValueError

\* re.match("(.+)\s{5,15}", line): the ends of group 1 that let the rest match
MatrixRowEnds(line) ==
  {p \in 1..(Len(line) - 5) :
     /\ \A q \in 1..p : Ch(line, q) # "\n"
     /\ \A q \in (p + 1)..(p + 5) : Ch(line, q) \in Whitespace}

matrix_row_res(line) == MatrixRowEnds(line) # {}

\* matrix_row_res.group(1): ".+" is greedy, it takes the longest such prefix
MatrixRowGroup1(line) == Slice(line, 1, Max(MatrixRowEnds(line)))

\* re.match("\s+(\d+)\s+(\d+)", line)
RowA(line) == SpanEnd(line, 1, Whitespace)
RowB(line) == SpanEnd(line, RowA(line), Digits)
RowC(line) == SpanEnd(line, RowB(line), Whitespace)
RowD(line) == SpanEnd(line, RowC(line), Digits)

row_res(line) ==
  /\ RowA(line) > 1
  /\ RowB(line) > RowA(line)
  /\ RowC(line) > RowB(line)
  /\ RowD(line) > RowC(line)

RowGroup1(line) == Slice(line, RowA(line), RowB(line) - 1)
RowGroup2(line) == Slice(line, RowC(line), RowD(line) - 1)

\* re.match("\d+ \((.+)\) vs. \d+ \((.+)\)", line)
CompStart1(line) == SpanEnd(line, 1, Digits) + 2

\* where group 2 starts when group 1 ends at e1 (0: the middle does not match)
CompStart2(line, e1) ==
  LET n == SpanEnd(line, e1 + 7, Digits)
  IN  IF /\ Slice(line, e1 + 1, e1 + 4) = ") vs"
         /\ e1 + 6 <= Len(line)
         /\ Ch(line, e1 + 5) # "\n"
         /\ Ch(line, e1 + 6) = " "
         /\ n > e1 + 7
         /\ Slice(line, n, n + 1) = " ("
      THEN n + 2 ELSE 0

\* the ends of a group that starts at b and is followed by ")"
CompEnds(line, b) ==
  {e \in b..(Len(line) - 1) :
     /\ Ch(line, e + 1) = ")"
     /\ \A q \in b..e : Ch(line, q) # "\n"}

CompEnds1(line) ==
  {e1 \in CompEnds(line, CompStart1(line)) :
     /\ CompStart2(line, e1) > 0
     /\ CompEnds(line, CompStart2(line, e1)) # {}}

comp_res(line) ==
  /\ SpanEnd(line, 1, Digits) > 1
  /\ Slice(line, CompStart1(line) - 2, CompStart1(line) - 1) = " ("
  /\ CompEnds1(line) # {}

\* both ".+" are greedy: the first takes the longest end that lets the rest
\* match, the second takes the longest end up to a closing parenthesis
CompGroup1(line) == Slice(line, CompStart1(line), Max(CompEnds1(line)))

CompGroup2(line) ==
  LET b == CompStart2(line, Max(CompEnds1(line)))
  IN  Slice(line, b, Max(CompEnds(line, b)))

(***************************************************************************)
(* Report lines, in the layout of the docstring examples with short names. *)
(* What the regular expressions and string methods extract from a line     *)
(* depends on the line alone, so it is tabulated once per line (the        *)
(* *Scan tables below) and the loop bodies look it up.                     *)
(***************************************************************************)
NG86Lines ==
  { "A     ",
    "B     0.1 (0.2 0.3)",
    "C     0.4 (0.5 0.6) 0.7 (0.8 0.9)",
    "(0.1 0.2 0.3)" }

YN00Lines ==
  { "   2    1    67.3   154.7   0.0136  3.6564  0.0100 -0.0000 +- 0.0020  0.0150 +- 0.0151",
    "   2    1    67.3   154.7   0.0136  3.6564  0.0100 -0.0000 +- 0.0020  0.0150",
    " +- 0.0151",
    "   0    1    67.3   154.7   0.0136  3.6564  0.0100 -0.0000 +- 0.0020  0.0150 +- 0.0151",
    "   4    1    67.3   154.7   0.0136  3.6564  0.0100 -0.0000 +- 0.0020  0.0150 +- 0.0151" }

OthersLines ==
  { "2 (B) vs. 1 (A)",
    "3 (C) vs. 1 (A)",
    "L(i):      143.0      51.0      28.0  sum=    222.0",
    "LWL85:  dS =  0.0227 dN =  0.0000 w = 0.0000 S =   45.0 N =  177.0",
    "LWL85m: dS =    -nan w =   -nan S =   45.0 (rho = -nan)",
    "LPB93:  dS =  0.0129 dN =     n/a w = 0.0000",
    "LWL85m/LWL85: dS =  0.1000",
    "LWL85 : dS =  0.3000" }

(***************************************************************************)
(* parse_ng86: the body of "for line in lines"                             *)
(***************************************************************************)
\* what lines 19-23 extract from the line
Ng86Scan(line) ==
  [ raises   |-> FloatsRaise(line),
    floats   |-> line_floats(line),
    matched  |-> matrix_row_res(line),
    seq_name |-> IF matrix_row_res(line) THEN Strip(MatrixRowGroup1(line)) ELSE "" ]

ng86_scan == [line \in NG86Lines |-> Ng86Scan(line)]

\* the MethodStats object {"omega": .., "dN": .., "dS": ..} of group g
NG86Stats(lf, g) ==
  ("omega" :> lf[3 * g + 1]) @@ ("dN" :> lf[3 * g + 2]) @@ ("dS" :> lf[3 * g + 3])

\* "for i in range(0, len(line_floats), 3)" from i = 3*g on; each pass
\* builds one NG86 object and stores a fresh {"NG86": NG86} in both directions
RECURSIVE Ng86Groups(_, _, _, _, _, _)
Ng86Groups(res, seqs, seq_name, lf, g, id) ==
  IF 3 * g >= Len(lf)
  THEN [results |-> res, sequences |-> seqs, nextId |-> id, err |-> "none"]
  ELSE IF 3 * g + 3 > Len(lf) \/ ~IndexOk(seqs, g)
  THEN [results |-> res, sequences |-> seqs, nextId |-> id, err |-> "IndexError"]
  ELSE LET NG86 == [id |-> id, stats |-> NG86Stats(lf, g)]
           col  == PyIndex(seqs, g)
           r1   == [res EXCEPT ![seq_name] = DictSet(@, col, "NG86" :> NG86)]
           r2   == [r1 EXCEPT ![col] = DictSet(@, seq_name, "NG86" :> NG86)]
       IN  Ng86Groups(r2, seqs, seq_name, lf, g + 1, id + 1)

\* results[seq_name] = {}
NewRow(res, seq_name) == DictSet(res, seq_name, EmptyDict)

Ng86Line(res, seqs, id, line) ==
  IF ng86_scan[line].raises
  THEN [results |-> res, sequences |-> seqs, nextId |-> id, err |-> "ValueError"]
  ELSE IF ~ng86_scan[line].matched
  THEN [results |-> res, sequences |-> seqs, nextId |-> id, err |-> "none"]
  ELSE Ng86Groups(NewRow(res, ng86_scan[line].seq_name),
                  Append(seqs, ng86_scan[line].seq_name),
                  ng86_scan[line].seq_name, ng86_scan[line].floats, 0, id)

(***************************************************************************)
(* parse_yn00: the body of "for line in lines"                             *)
(***************************************************************************)
\* what lines 48-53 extract from the line
Yn00Scan(line) ==
  [ raises  |-> FloatsRaise(line),
    floats  |-> line_floats(line),
    matched |-> row_res(line),
    seq1    |-> IF row_res(line) THEN PyInt(RowGroup1(line)) ELSE 0,
    seq2    |-> IF row_res(line) THEN PyInt(RowGroup2(line)) ELSE 0 ]

yn00_scan == [line \in YN00Lines |-> Yn00Scan(line)]

YN00Stats(lf) ==
  ("S" :> lf[1]) @@ ("N" :> lf[2]) @@ ("t" :> lf[3]) @@ ("kappa" :> lf[4])
    @@ ("omega" :> lf[5]) @@ ("dN" :> lf[6]) @@ ("dN SE" :> lf[7])
    @@ ("dS" :> lf[8]) @@ ("dS SE" :> lf[9])

\* results[a][b] exists
HasPair(res, a, b) == a \in DOMAIN res /\ b \in DOMAIN res[a]

\* results[a][b][m] = obj
SetMethod(res, a, b, m, obj) ==
  [res EXCEPT ![a] = [@ EXCEPT ![b] = DictSet(@, m, obj)]]

\* results[a][b][m] = obj; results[b][a][m] = obj, KeyError when a pair
\* entry is missing (after the first store when only the second is missing)
StoreBoth(res, a, b, m, obj, id) ==
  IF ~HasPair(res, a, b)
  THEN [results |-> res, nextId |-> id, err |-> "KeyError"]
  ELSE IF ~HasPair(SetMethod(res, a, b, m, obj), b, a)
  THEN [results |-> SetMethod(res, a, b, m, obj), nextId |-> id, err |-> "KeyError"]
  ELSE [results |-> SetMethod(SetMethod(res, a, b, m, obj), b, a, m, obj),
        nextId |-> id, err |-> "none"]

\* sequences[seq - 1]
SeqName(seqs, seq) == PyIndex(seqs, seq - 1)

SeqNameOk(seqs, seq) == IndexOk(seqs, seq - 1)

Yn00Line(res, seqs, id, line) ==
  IF yn00_scan[line].raises
  THEN [results |-> res, nextId |-> id, err |-> "ValueError"]
  ELSE IF ~yn00_scan[line].matched
  THEN [results |-> res, nextId |-> id, err |-> "none"]
  ELSE IF \/ ~SeqNameOk(seqs, yn00_scan[line].seq1)
          \/ ~SeqNameOk(seqs, yn00_scan[line].seq2)
          \/ Len(yn00_scan[line].floats) < 9
  THEN [results |-> res, nextId |-> id, err |-> "IndexError"]
  ELSE StoreBoth(res, SeqName(seqs, yn00_scan[line].seq1),
                 SeqName(seqs, yn00_scan[line].seq2), "YN00",
                 [id |-> id, stats |-> YN00Stats(yn00_scan[line].floats)], id + 1)

(***************************************************************************)
(* parse_others: the body of "for line in lines"                           *)
(***************************************************************************)
Parens == {"(", ")"}

\* try: stats[stat] = float(value)  except: stats[stat] = None
StatValue(value) == IF PyFloat(value) = ValueError THEN None ELSE PyFloat(value)

\* "for i in range(0, len(stats_split), 3)" from i = 3*g on
RECURSIVE StatsLoop(_, _, _)
StatsLoop(stats_split, g, stats) ==
  IF 3 * g >= Len(stats_split) THEN [stats |-> stats, err |-> "none"]
  ELSE IF 3 * g + 3 > Len(stats_split) THEN [stats |-> stats, err |-> "ValueError"]
  ELSE LET tok   == StripChars(stats_split[3 * g + 1], Parens)
           stat  == IF tok = "w" THEN "omega" ELSE tok
           value == StripChars(stats_split[3 * g + 3], Parens)
       IN  StatsLoop(stats_split, g + 1, DictSet(stats, stat, StatValue(value)))

\* StatsLabel testing the bare "LWL85", which every LWL85m line contains too
StatsLabel_Bare(line) ==
  IF Contains(line, "LWL85") THEN "LWL85"
  ELSE IF Contains(line, "LWL85m") THEN "LWL85m"
  ELSE IF Contains(line, "LPB93") THEN "LPB93"
  ELSE ""

\* the method label a statistics line is stored under, "" for none
StatsLabel(line) ==
  IF Contains(line, "LWL85:") THEN "LWL85"
  ELSE IF Contains(line, "LWL85m") THEN "LWL85m"
  ELSE IF Contains(line, "LPB93") THEN "LPB93"
  ELSE ""

\* what lines 97-117 and the tests of lines 118-124 extract from the line
OthersScan(line) ==
  [ header    |-> comp_res(line),
    name1     |-> IF comp_res(line) THEN CompGroup1(line) ELSE "",
    name2     |-> IF comp_res(line) THEN CompGroup2(line) ELSE "",
    has_dS    |-> Contains(line, "dS ="),
    has_colon |-> HasColon(line),
    loop      |-> IF HasColon(line)
                  THEN StatsLoop(Split(Strip(SplitColon1(line))), 0, EmptyDict)
                  ELSE [stats |-> EmptyDict, err |-> "IndexError"],
    label     |-> StatsLabel(line) ]

others_scan == [line \in OthersLines |-> OthersScan(line)]

\* lines 103-126 for the active pair (n1, n2)
StatsLine(res, n1, n2, id, line) ==
  IF ~others_scan[line].has_colon
  THEN [results |-> res, nextId |-> id, err |-> "IndexError"]
  ELSE IF others_scan[line].loop.err # "none"
  THEN [results |-> res, nextId |-> id + 1, err |-> others_scan[line].loop.err]
  ELSE IF others_scan[line].label = ""
  THEN [results |-> res, nextId |-> id + 1, err |-> "none"]
  ELSE StoreBoth(res, n1, n2, others_scan[line].label,
                 [id |-> id, stats |-> others_scan[line].loop.stats], id + 1)

\* OthersLine without the "is not None" guard: a statistics line that has
\* no pair looks up results[None]
OthersLine_Unguarded(res, n1, n2, id, line) ==
  IF others_scan[line].header
  THEN [results |-> res, nextId |-> id, err |-> "none",
        seq_name1 |-> Name(others_scan[line].name1),
        seq_name2 |-> Name(others_scan[line].name2)]
  ELSE IF others_scan[line].has_dS
  THEN IF n1 = NoName \/ n2 = NoName
       THEN [results |-> res, nextId |-> id + 1, err |-> "KeyError",
             seq_name1 |-> n1, seq_name2 |-> n2]
       ELSE [seq_name1 |-> n1, seq_name2 |-> n2]
              @@ StatsLine(res, n1[1], n2[1], id, line)
  ELSE [results |-> res, nextId |-> id, err |-> "none",
        seq_name1 |-> n1, seq_name2 |-> n2]

\* OthersLine that drops the active pair at a line that is neither a header
\* nor a statistics line
OthersLine_Forgets(res, n1, n2, id, line) ==
  IF others_scan[line].header
  THEN [results |-> res, nextId |-> id, err |-> "none",
        seq_name1 |-> Name(others_scan[line].name1),
        seq_name2 |-> Name(others_scan[line].name2)]
  ELSE IF n1 # NoName /\ n2 # NoName /\ others_scan[line].has_dS
  THEN [seq_name1 |-> n1, seq_name2 |-> n2]
         @@ StatsLine(res, n1[1], n2[1], id, line)
  ELSE [results |-> res, nextId |-> id, err |-> "none",
        seq_name1 |-> NoName, seq_name2 |-> NoName]

OthersLine(res, n1, n2, id, line) ==
  IF others_scan[line].header
  THEN [results |-> res, nextId |-> id, err |-> "none",
        seq_name1 |-> Name(others_scan[line].name1),
        seq_name2 |-> Name(others_scan[line].name2)]
  ELSE IF n1 # NoName /\ n2 # NoName /\ others_scan[line].has_dS
  THEN [seq_name1 |-> n1, seq_name2 |-> n2]
         @@ StatsLine(res, n1[1], n2[1], id, line)
  ELSE [results |-> res, nextId |-> id, err |-> "none",
        seq_name1 |-> n1, seq_name2 |-> n2]

(***************************************************************************)
(* The caller.  It starts from an empty ResultTable and threads `results`  *)
(* and the SequenceList that parse_ng86 returned through its calls.  One   *)
(* step of a running call is one pass of its "for line in lines" loop; the *)
(* call returns when its lines are used up.  An exception ends the run:    *)
(* `results` is mutated in place and keeps what was stored before it.      *)
(***************************************************************************)
MaxCalls == 3
MaxLines == 3

VARIABLES
  results,         \* the ResultTable dict the caller threads through the calls
  sequences,       \* the SequenceList the caller got from parse_ng86
  pc,              \* "idle", the running parser, or "raised"
  ng86_sequences,  \* parse_ng86's local list `sequences`
  seq_name1,       \* parse_others' local seq_name1 (NoName is None)
  seq_name2,       \* parse_others' local seq_name2
  err,             \* the exception that ended the run, "none" otherwise
  nextId,          \* identity of the next MethodStats object to be created
  ncalls,          \* calls made so far
  lines,           \* the lines the running (or last) call has consumed
  old              \* `results` as it was when the running (or last) call began

vars == <<results, sequences, pc, ng86_sequences, seq_name1, seq_name2, err,
          nextId, ncalls, lines, old>>

Init ==
  /\ results = EmptyDict
  /\ sequences = << >>
  /\ pc = "idle"
  /\ ng86_sequences = << >>
  /\ seq_name1 = NoName
  /\ seq_name2 = NoName
  /\ err = "none"
  /\ nextId = 1
  /\ ncalls = 0
  /\ lines = << >>
  /\ old = EmptyDict

\* the caller enters a parser with the current `results`
Enter(parser) ==
  /\ pc = "idle"
  /\ pc' = parser
  /\ ncalls' = ncalls + 1
  /\ lines' = << >>
  /\ old' = results
  /\ UNCHANGED <<results, sequences, err, nextId>>

\* what a pass of a loop leaves behind: the loop goes on, or the call raised
After(parser, r, line) ==
  /\ results' = r.results
  /\ nextId' = r.nextId
  /\ err' = r.err
  /\ pc' = IF r.err = "none" THEN parser ELSE "raised"
  /\ lines' = Append(lines, line)
  /\ UNCHANGED <<sequences, ncalls, old>>

Ng86Pass(line) ==
  /\ pc = "parse_ng86"
  /\ Len(lines) < MaxLines
  /\ After("parse_ng86", Ng86Line(results, ng86_sequences, nextId, line), line)
  /\ ng86_sequences' = Ng86Line(results, ng86_sequences, nextId, line).sequences
  /\ UNCHANGED <<seq_name1, seq_name2>>

Yn00Pass(line) ==
  /\ pc = "parse_yn00"
  /\ Len(lines) < MaxLines
  /\ After("parse_yn00", Yn00Line(results, sequences, nextId, line), line)
  /\ UNCHANGED <<ng86_sequences, seq_name1, seq_name2>>

OthersPass(line) ==
  /\ pc = "parse_others"
  /\ Len(lines) < MaxLines
  /\ After("parse_others", OthersLine(results, seq_name1, seq_name2, nextId, line), line)
  /\ seq_name1' = OthersLine(results, seq_name1, seq_name2, nextId, line).seq_name1
  /\ seq_name2' = OthersLine(results, seq_name1, seq_name2, nextId, line).seq_name2
  /\ UNCHANGED ng86_sequences

\* return (results, sequences)
Return_parse_ng86 ==
  /\ pc = "parse_ng86"
  /\ pc' = "idle"
  /\ sequences' = ng86_sequences
  /\ UNCHANGED <<results, ng86_sequences, seq_name1, seq_name2, err, nextId,
                 ncalls, lines, old>>

\* return results
Return_parse_yn00 ==
  /\ pc = "parse_yn00"
  /\ pc' = "idle"
  /\ UNCHANGED <<results, sequences, ng86_sequences, seq_name1, seq_name2, err,
                 nextId, ncalls, lines, old>>

\* return results
Return_parse_others ==
  /\ pc = "parse_others"
  /\ pc' = "idle"
  /\ UNCHANGED <<results, sequences, ng86_sequences, seq_name1, seq_name2, err,
                 nextId, ncalls, lines, old>>

(***************************************************************************)
(* Spec: the parsers composed in any order on one table, on a well-formed  *)
(* two-sequence report (one matrix, one table row, one comparison block).  *)
(***************************************************************************)
ComposeNG86 == {"A     ", "B     0.1 (0.2 0.3)"}

ComposeYN00 ==
  {"   2    1    67.3   154.7   0.0136  3.6564  0.0100 -0.0000 +- 0.0020  0.0150 +- 0.0151"}

ComposeOthers ==
  { "2 (B) vs. 1 (A)",
    "LWL85:  dS =  0.0227 dN =  0.0000 w = 0.0000 S =   45.0 N =  177.0" }

Call_parse_ng86 ==
  /\ ncalls < MaxCalls
  /\ Enter("parse_ng86")
  /\ ng86_sequences' = << >>
  /\ UNCHANGED <<seq_name1, seq_name2>>

Line_parse_ng86 == \E line \in ComposeNG86 : Ng86Pass(line)

Call_parse_yn00 ==
  /\ ncalls < MaxCalls
  /\ Enter("parse_yn00")
  /\ UNCHANGED <<ng86_sequences, seq_name1, seq_name2>>

Line_parse_yn00 == \E line \in ComposeYN00 : Yn00Pass(line)

Call_parse_others ==
  /\ ncalls < MaxCalls
  /\ Enter("parse_others")
  /\ seq_name1' = NoName
  /\ seq_name2' = NoName
  /\ UNCHANGED ng86_sequences

Line_parse_others == \E line \in ComposeOthers : OthersPass(line)

Next ==
  \/ Call_parse_ng86
  \/ Line_parse_ng86
  \/ Return_parse_ng86
  \/ Call_parse_yn00
  \/ Line_parse_yn00
  \/ Return_parse_yn00
  \/ Call_parse_others
  \/ Line_parse_others
  \/ Return_parse_others

Spec == Init /\ [][Next]_vars

(***************************************************************************)
(* SpecNg86: the matrix section parsed, and parsed once more into the      *)
(* table it left, over every line of NG86Lines.                            *)
(***************************************************************************)
Matrix_Call ==
  /\ ncalls \in {0, 1}
  /\ Enter("parse_ng86")
  /\ ng86_sequences' = << >>
  /\ UNCHANGED <<seq_name1, seq_name2>>

Matrix_Line == \E line \in NG86Lines : Ng86Pass(line)

NextNg86 ==
  \/ Matrix_Call
  \/ Matrix_Line
  \/ Return_parse_ng86

SpecNg86 == Init /\ [][NextNg86]_vars

(***************************************************************************)
(* SpecYn00 and SpecOthers: the report parsed in its order.  The matrix    *)
(* section (rows of NG86Lines) comes first and gives the table and the     *)
(* SequenceList; then the section under study, over all of its lines.      *)
(***************************************************************************)
MatrixRows == {line \in NG86Lines : ng86_scan[line].matched}

First_Call ==
  /\ ncalls = 0
  /\ Enter("parse_ng86")
  /\ ng86_sequences' = << >>
  /\ UNCHANGED <<seq_name1, seq_name2>>

First_Line == \E line \in MatrixRows : Ng86Pass(line)

Table_Call ==
  /\ ncalls = 1
  /\ Enter("parse_yn00")
  /\ UNCHANGED <<ng86_sequences, seq_name1, seq_name2>>

Table_Line == \E line \in YN00Lines : Yn00Pass(line)

NextYn00 ==
  \/ First_Call
  \/ First_Line
  \/ Return_parse_ng86
  \/ Table_Call
  \/ Table_Line
  \/ Return_parse_yn00

SpecYn00 == Init /\ [][NextYn00]_vars

Grouped_Call ==
  /\ ncalls = 1
  /\ Enter("parse_others")
  /\ seq_name1' = NoName
  /\ seq_name2' = NoName
  /\ UNCHANGED ng86_sequences

Grouped_Line == \E line \in OthersLines : OthersPass(line)

NextOthers ==
  \/ First_Call
  \/ First_Line
  \/ Return_parse_ng86
  \/ Grouped_Call
  \/ Grouped_Line
  \/ Return_parse_others

SpecOthers == Init /\ [][NextOthers]_vars

(***************************************************************************)
(* Vocabulary of the claims                                                *)
(***************************************************************************)
Methods == {"NG86", "YN00", "LWL85", "LWL85m", "LPB93"}

Parsers == {"parse_ng86", "parse_yn00", "parse_others"}

\* the method labels a parser stores under
OwnLabels(parser) ==
  CASE parser = "parse_ng86" -> {"NG86"}
    [] parser = "parse_yn00" -> {"YN00"}
    [] parser = "parse_others" -> {"LWL85", "LWL85m", "LPB93"}

\* results[a][b][m] exists
Has(res, a, b, m) == HasPair(res, a, b) /\ m \in DOMAIN res[a][b]

\* every sequence name that is a key of the table, at either level
NamesOf(res) == DOMAIN res \cup UNION {DOMAIN res[a] : a \in DOMAIN res}

Last(s) == s[Len(s)]

\* this step is one pass of the loop of `parser`, over the line Last(lines')
PassOf(parser) == pc = parser /\ Len(lines') = Len(lines) + 1

\* the pass ran to its end: it did not raise
Survived == pc' = pc

(***************************************************************************)
(* C1.  After every completed call, in any sequence of calls from the      *)
(* empty table: results[a][b][m] exists iff results[b][a][m] exists, and   *)
(* the two are the identical MethodStats object.                           *)
(***************************************************************************)
C1_Symmetric ==
  pc = "idle" =>
    \A a \in NamesOf(results), b \in NamesOf(results), m \in Methods :
      /\ Has(results, a, b, m) <=> Has(results, b, a, m)
      /\ Has(results, a, b, m) => results[a][b][m] = results[b][a][m]

(***************************************************************************)
(* C2.  A call of a parser on a table that already holds results never     *)
(* changes or removes the MethodStats stored under another method's label, *)
(* for any pair: what the table held under a label that is not the         *)
(* parser's own when the call began, it still holds when the call returns. *)
(* (A running call may return after any line, so the property is stated of *)
(* every state of a call that has not raised.)                             *)
(***************************************************************************)
C2_OtherMethodsKept ==
  pc \in Parsers =>
    \A a \in NamesOf(old), b \in NamesOf(old), m \in Methods \ OwnLabels(pc) :
      Has(old, a, b, m) =>
        /\ Has(results, a, b, m)
        /\ results[a][b][m] = old[a][b][m]

(***************************************************************************)
(* C3.  The table only grows: no sequence-name key and no pair key that    *)
(* was present when a call began is absent when it returns; parse_ng86     *)
(* keeps the pair entries of a row label that already has an entry.        *)
(***************************************************************************)
C3_TableOnlyGrows ==
  pc \in Parsers =>
    /\ DOMAIN old \subseteq DOMAIN results
    /\ \A a \in DOMAIN old : DOMAIN old[a] \subseteq DOMAIN results[a]

(***************************************************************************)
(* C4.  Every line that matches the row-start pattern with two valid       *)
(* positions i, j of SequenceList (for a pair the table holds) is parsed   *)
(* without failure and leaves under YN00, for (sequences[i-1],             *)
(* sequences[j-1]), a record whose fields S, N, t, kappa, omega, dN,       *)
(* dN SE, dS, dS SE are the line's numbers in order; a row whose dS SE is  *)
(* wrapped to the next line carries eight numbers and is still stored,     *)
(* with at least its first seven fields.                                   *)
(***************************************************************************)
YN00Fields == <<"S", "N", "t", "kappa", "omega", "dN", "dN SE", "dS", "dS SE">>

\* the row's two indices are positions of SequenceList, 1-based
ValidRow(line) ==
  /\ yn00_scan[line].matched
  /\ yn00_scan[line].seq1 \in 1..Len(sequences)
  /\ yn00_scan[line].seq2 \in 1..Len(sequences)

\* rec holds the first n numbers of the line under the first n field names
FieldsInOrder(rec, line, n) ==
  \A k \in 1..n :
    /\ YN00Fields[k] \in DOMAIN rec.stats
    /\ rec.stats[YN00Fields[k]] = yn00_scan[line].floats[k]

C4_Step ==
  PassOf("parse_yn00") =>
    LET line == Last(lines')
        n1   == sequences[yn00_scan[line].seq1]
        n2   == sequences[yn00_scan[line].seq2]
        n    == Len(yn00_scan[line].floats)
    IN  ( /\ ValidRow(line)
          /\ n >= 8
          /\ HasPair(results, n1, n2)
          /\ HasPair(results, n2, n1) )
        => /\ Survived
           /\ Has(results', n1, n2, "YN00")
           /\ results'[n1][n2]["YN00"].id = nextId
           /\ FieldsInOrder(results'[n1][n2]["YN00"], line, IF n >= 9 THEN 9 ELSE 7)

\* C4: every step of parse_yn00 over a valid row, wrapped or not, stores the row
C4_RowStored == [][C4_Step]_vars

(***************************************************************************)
(* C6.  parse_yn00 resolves the two row indices strictly 1-based: a row    *)
(* (i, j) writes a YN00 record only when both are positions of             *)
(* SequenceList, and then only to (sequences[i-1], sequences[j-1]); a row  *)
(* with an index that is no position fails and writes no YN00 record.      *)
(***************************************************************************)
\* the pairs that hold a YN00 object in res2 which res1 did not hold there
NewYN00(res1, res2) ==
  {p \in NamesOf(res2) \X NamesOf(res2) :
     /\ Has(res2, p[1], p[2], "YN00")
     /\ ~(Has(res1, p[1], p[2], "YN00") /\ res1[p[1]][p[2]]["YN00"] = res2[p[1]][p[2]]["YN00"])}

C6_Step ==
  PassOf("parse_yn00") =>
    LET line == Last(lines')
    IN  yn00_scan[line].matched =>
          IF ValidRow(line)
          THEN NewYN00(results, results') \subseteq
                 { <<sequences[yn00_scan[line].seq1], sequences[yn00_scan[line].seq2]>>,
                   <<sequences[yn00_scan[line].seq2], sequences[yn00_scan[line].seq1]>> }
          ELSE /\ ~Survived
               /\ NewYN00(results, results') = {}

\* C6: every step of parse_yn00 resolves the row's indices strictly 1-based
C6_IndexStrict == [][C6_Step]_vars

(***************************************************************************)
(* Vocabulary of the parse_others claims                                   *)
(***************************************************************************)
\* the positions of the header lines among the lines ls
HeaderIdx(ls) == {i \in 1..Len(ls) : others_scan[ls[i]].header}

\* the most recent header line of ls
LastHeader(ls) == ls[Max(HeaderIdx(ls))]

\* a statistics line: it carries the "dS =" marker and is no header
IsStatsLine(line) == others_scan[line].has_dS /\ ~others_scan[line].header

\* the labels under which res2 holds, for (a, b), the object this pass made
Stored(res2, a, b) ==
  {m \in Methods : Has(res2, a, b, m) /\ res2[a][b][m].id = nextId}

\* res2 is res1 but for the PairResults of the pairs in P, where only the
\* labels in M may differ
SameBut(res1, res2, P, M) ==
  /\ DOMAIN res2 = DOMAIN res1
  /\ \A a \in DOMAIN res1 :
       /\ DOMAIN res2[a] = DOMAIN res1[a]
       /\ \A b \in DOMAIN res1[a] :
            IF <<a, b>> \in P
            THEN \A m \in Methods \ M :
                   /\ m \in DOMAIN res2[a][b] <=> m \in DOMAIN res1[a][b]
                   /\ m \in DOMAIN res1[a][b] => res2[a][b][m] = res1[a][b][m]
            ELSE res2[a][b] = res1[a][b]

(***************************************************************************)
(* C5.  As claimed: in parse_others a statistics line (one with the        *)
(* "dS =" marker) met before any header line is a fatal error.             *)
(***************************************************************************)
C5_Orphan == PassOf("parse_others") /\ HeaderIdx(lines) = {} /\ IsStatsLine(Last(lines'))

\* C5: a statistics line met before any header line makes the call fail
C5_OrphanStatsFatal == [][C5_Orphan => ~Survived]_vars

(***************************************************************************)
(* C5, amended.  A statistics line met before any header line is skipped:  *)
(* the pass raises nothing, leaves the table as it was and leaves the      *)
(* parser without an active pair.                                          *)
(***************************************************************************)
C5_OrphanStatsSkipped ==
  [][C5_Orphan =>
       /\ Survived
       /\ err' = "none"
       /\ results' = results
       /\ seq_name1' = NoName
       /\ seq_name2' = NoName]_vars

\* a statistics line was skipped ahead of any header, on a table holding (B, A)
C5_Witness ==
  /\ pc = "parse_others"
  /\ Len(lines) >= 1
  /\ HeaderIdx(lines) = {}
  /\ IsStatsLine(Last(lines))
  /\ others_scan[Last(lines)].label = "LWL85"
  /\ HasPair(results, "B", "A")
  /\ results = old

(***************************************************************************)
(* C7.  In parse_others, on a statistics line under an active pair, each   *)
(* key whose value token is not a valid number ("-nan" included) is stored *)
(* as the undefined marker None, the pass does not fail, and the keys      *)
(* whose tokens are valid numbers keep their numeric values.               *)
(***************************************************************************)
\* the whitespace tokens after the first colon of a line
C7_Tokens ==
  [line \in OthersLines |->
     IF HasColon(line) THEN Split(Strip(SplitColon1(line))) ELSE << >>]

\* the token is a number (not nan, not a word)
ValidNumber(tok) == IsNumber(PyFloat(tok))

C7_Key(tok) == IF StripChars(tok, Parens) = "w" THEN "omega" ELSE StripChars(tok, Parens)

\* the stats dict holds, for the g-th key of the line, what the claim says
C7_GroupOk(stats, toks, g) ==
  LET key   == C7_Key(toks[3 * g - 2])
      value == StripChars(toks[3 * g], Parens)
  IN  /\ key \in DOMAIN stats
      /\ stats[key] = IF ValidNumber(value) THEN PyFloat(value) ELSE None

C7_Step ==
  PassOf("parse_others") =>
    LET line == Last(lines')
        toks == C7_Tokens[line]
    IN  ( /\ IsStatsLine(line)
          /\ others_scan[line].label # ""
          /\ Len(toks) % 3 = 0
          /\ seq_name1 # NoName
          /\ seq_name2 # NoName
          /\ HasPair(results, seq_name1[1], seq_name2[1])
          /\ HasPair(results, seq_name2[1], seq_name1[1]) )
        => /\ Survived
           /\ Stored(results', seq_name1[1], seq_name2[1]) # {}
           /\ \A m \in Stored(results', seq_name1[1], seq_name2[1]) :
                \A g \in 1..(Len(toks) \div 3) :
                  C7_GroupOk(results'[seq_name1[1]][seq_name2[1]][m].stats, toks, g)

\* C7: every statistics line stores None for each token that is no valid number
C7_UndefinedMarker == [][C7_Step]_vars

(***************************************************************************)
(* C9.  In parse_others every classified statistics line writes its        *)
(* MethodStats to exactly the pair named by the most recent header line    *)
(* before it (a pair the table holds) and to no other pair, whatever lines *)
(* lie between; a header line makes its two names the active pair; no      *)
(* other line changes or clears the active pair.                           *)
(***************************************************************************)
C9_Step ==
  PassOf("parse_others") =>
    LET line == Last(lines')
        hdr  == LastHeader(lines)
        h1   == others_scan[hdr].name1
        h2   == others_scan[hdr].name2
        m    == others_scan[line].label
    IN  /\ others_scan[line].header =>
             /\ seq_name1' = Name(others_scan[line].name1)
             /\ seq_name2' = Name(others_scan[line].name2)
             /\ results' = results
        /\ ~others_scan[line].header =>
             /\ seq_name1' = seq_name1
             /\ seq_name2' = seq_name2
        /\ (~others_scan[line].header /\ HeaderIdx(lines) # {}) =>
             SameBut(results, results', {<<h1, h2>>, <<h2, h1>>}, {m})
        /\ ( /\ IsStatsLine(line)
             /\ m # ""
             /\ HeaderIdx(lines) # {}
             /\ others_scan[line].loop.err = "none"
             /\ HasPair(results, h1, h2)
             /\ HasPair(results, h2, h1) )
           => /\ Survived
              /\ Stored(results', h1, h2) = {m}
              /\ Stored(results', h2, h1) = {m}
              /\ results'[h1][h2][m] = results'[h2][h1][m]

\* C9: every statistics line writes to the pair of the most recent header only
C9_ActivePair == [][C9_Step]_vars

\* a second header replaced the pair of the first, and the statistics line
\* after them went to the second pair alone
C9_Witness ==
  /\ pc = "parse_others"
  /\ Len(lines) = 3
  /\ others_scan[lines[1]].header
  /\ others_scan[lines[1]].name1 = "B"
  /\ others_scan[lines[2]].header
  /\ others_scan[lines[2]].name1 = "C"
  /\ IsStatsLine(lines[3])
  /\ Has(results, "C", "A", "LWL85m")
  /\ Has(results, "A", "C", "LWL85m")
  /\ ~Has(results, "B", "A", "LWL85m")

(***************************************************************************)
(* C10.  As claimed: a statistics line is stored under at most one of      *)
(* LWL85, LWL85m, LPB93; a line that contains LWL85m is stored under       *)
(* LWL85m and never under LWL85, a line that contains LWL85 but not LWL85m *)
(* under LWL85, a line that contains LPB93 and neither of them under LPB93.*)
(***************************************************************************)
\* a well-formed statistics line met under an active pair the table holds
C10_Case ==
  /\ PassOf("parse_others")
  /\ IsStatsLine(Last(lines'))
  /\ others_scan[Last(lines')].loop.err = "none"
  /\ seq_name1 # NoName
  /\ seq_name2 # NoName
  /\ HasPair(results, seq_name1[1], seq_name2[1])
  /\ HasPair(results, seq_name2[1], seq_name1[1])

C10_Claimed ==
  [line \in OthersLines |->
     IF Contains(line, "LWL85m") THEN {"LWL85m"}
     ELSE IF Contains(line, "LWL85") THEN {"LWL85"}
     ELSE IF Contains(line, "LPB93") THEN {"LPB93"}
     ELSE {}]

\* C10: the label is chosen by the substrings LWL85m, LWL85, LPB93, in that order
C10_SubstringOrder ==
  [][C10_Case =>
       Stored(results', seq_name1[1], seq_name2[1]) = C10_Claimed[Last(lines')]]_vars

(***************************************************************************)
(* C10, amended.  A statistics line is stored under at most one label,     *)
(* chosen by substring tests in this order: a line that contains "LWL85:"  *)
(* (with the colon) is stored under LWL85 even if it also contains LWL85m; *)
(* otherwise a line that contains LWL85m is stored under LWL85m; otherwise *)
(* a line that contains LPB93 is stored under LPB93; any other line, one   *)
(* with a bare LWL85 included, is stored under no label.                   *)
(***************************************************************************)
C10_Amended ==
  [line \in OthersLines |->
     IF Contains(line, "LWL85:") THEN {"LWL85"}
     ELSE IF Contains(line, "LWL85m") THEN {"LWL85m"}
     ELSE IF Contains(line, "LPB93") THEN {"LPB93"}
     ELSE {}]

\* C10, amended: the label is chosen by "LWL85:", then LWL85m, then LPB93
C10_ColonFirst ==
  [][C10_Case =>
       /\ Survived
       /\ Stored(results', seq_name1[1], seq_name2[1]) = C10_Amended[Last(lines')]
       /\ Stored(results', seq_name2[1], seq_name1[1]) = C10_Amended[Last(lines')]]_vars

\* a line holding both LWL85m and "LWL85:" was stored under LWL85
C10_Witness ==
  /\ pc = "parse_others"
  /\ Len(lines) >= 2
  /\ Contains(Last(lines), "LWL85m")
  /\ Contains(Last(lines), "LWL85:")
  /\ Has(results, "B", "A", "LWL85")
  /\ ~Has(results, "B", "A", "LWL85m")

(***************************************************************************)
(* Vocabulary of the parse_ng86 claims                                     *)
(***************************************************************************)
\* the line carries a row label
IsLabelled(line) == ng86_scan[line].matched

\* the labels of the row-labelled lines of ls, in line order
RECURSIVE LabelsOf(_)
LabelsOf(ls) ==
  IF ls = << >> THEN << >>
  ELSE IF IsLabelled(Last(ls))
       THEN Append(LabelsOf(SubSeq(ls, 1, Len(ls) - 1)), ng86_scan[Last(ls)].seq_name)
       ELSE LabelsOf(SubSeq(ls, 1, Len(ls) - 1))

\* the number of complete groups of three numbers on the line
NumGroups(line) == Len(ng86_scan[line].floats) \div 3

\* the j-th group of three numbers of the line, as {omega, dN, dS}
GroupOf(line, j) ==
  ("omega" :> ng86_scan[line].floats[3 * j - 2])
    @@ ("dN" :> ng86_scan[line].floats[3 * j - 1])
    @@ ("dS" :> ng86_scan[line].floats[3 * j])

\* res holds the group under NG86 for (a, b), one object in both directions
HoldsGroup(res, a, b, line, j) ==
  /\ Has(res, a, b, "NG86")
  /\ Has(res, b, a, "NG86")
  /\ res[a][b]["NG86"].stats = GroupOf(line, j)
  /\ res[b][a]["NG86"] = res[a][b]["NG86"]

\* this step is the return of parse_ng86
ReturnOfNg86 == pc = "parse_ng86" /\ pc' = "idle"

\* a pass over a line without a label changes neither the list nor the table
C8_Unlabelled ==
  (PassOf("parse_ng86") /\ ~IsLabelled(Last(lines'))) =>
    /\ results' = results
    /\ ng86_sequences' = ng86_sequences

(***************************************************************************)
(* C8.  As claimed: after parse_ng86 over any lines the returned           *)
(* SequenceList is the labels of the row-labelled lines in line order, and *)
(* for each labelled row the j-th group of three numbers is stored as      *)
(* {omega, dN, dS} under NG86 for the row's label and the label of the     *)
(* j-th labelled row, which is always an earlier row and never the row     *)
(* itself; a line without a label changes neither list nor table.          *)
(***************************************************************************)
C8_Claimed(res, seqs, ls) ==
  LET rows == SelectSeq(ls, IsLabelled)
  IN  /\ seqs = LabelsOf(ls)
      /\ \A r \in 1..Len(rows) : \A j \in 1..NumGroups(rows[r]) :
           /\ j < r
           /\ HoldsGroup(res, ng86_scan[rows[r]].seq_name,
                         ng86_scan[rows[j]].seq_name, rows[r], j)

\* C8: parse_ng86 returns the row labels in order and pairs the j-th group of a
\* row with the j-th labelled row, always an earlier one
C8_LowerTriangular ==
  [][/\ ReturnOfNg86 => C8_Claimed(results', sequences', lines')
     /\ C8_Unlabelled]_vars

====
